---- MODULE Spec2Model ----
(***************************************************************************)
(* A model of the voice assistant of the raspberry repository:             *)
(*   - Assistant::listen (assistant/src/lib.rs), the orchestrator that     *)
(*     sequences wakeword receipt, speech recognition and classification;  *)
(*   - STTSentenceRecognizer::recognize and the capture callback of        *)
(*     init_stream (assistant/src/stt.rs), two threads and a channel;      *)
(*   - IntentRecognizer (assistant/src/intents.rs), the nearest-example    *)
(*     search over cosine similarities.                                    *)
(* Three specifications share the variables: Spec (the orchestrator),      *)
(* SpecSTT (one recognition session) and SpecIntent (the classifier).      *)
(***************************************************************************)
EXTENDS Integers, Sequences, FiniteSets, TLC

(***************************************************************************)
(* Bounds of the model.                                                    *)
(***************************************************************************)
\* Wakeword detections the spotter makes in one behaviour.
MaxDetections == 3
\* Chunks delivered to a session's callback after its first message.
MaxChunks == 1
\* Clock ticks per second: the clock is finer than Duration::as_secs.
TicksPerSec == 2
\* Seconds of wall-clock time a behaviour of SpecSTT covers.
MaxSecs == 23
\* Intents registered with add_intent, and example phrases registered in all.
MaxIntents == 2
MaxExamples == 3
\* Largest frame size of the spotter, in samples.
MaxFrame == 3
\* Longest chunk the capture stream delivers in one callback, in samples.
MaxChunk == 4
\* Samples delivered to the detection callback in one behaviour.
MaxSamples == 5
\* Configuration ranges the capture device lists as supported.
MaxConfigs == 2
\* Largest absolute value of a component of a vector given to
\* compute_cosine_distance.
MaxComponent == 2

(***************************************************************************)
(* Program constants.                                                      *)
(***************************************************************************)
\* stt.rs:152  start_time.elapsed().as_secs() > 20
TimeoutSecs == 20
\* intents.rs:102  score < 0.5, the floor as the fraction 1/2
FloorNum == 1
FloorDen == 2
\* wakeword.rs:68  try_get_config_with_sample_rate(sc, 16000)
PreferredSampleRate == 16000
\* stt.rs:46-49  the rate STTConfig::build looks for in a supported range.
CaptureSampleRate == 16000
\* stt.rs:112  Recognizer::new(self.model, 16000.): the decoder's rate.
DecoderSampleRate == 16000

VARIABLES
    \* ---- Assistant (lib.rs) and WakewordListener (wakeword.rs) ----
    rx,                \* wakeword event channel: the queue of sent events
    tx_alive,          \* the sending end of the event channel still exists
    speaking,          \* the synthesizer is speaking
    pc,                \* position of the caller's thread in listen()
    wakeword,          \* listen()'s local `wakeword`
    text,              \* listen()'s local `text`
    ret,               \* what the last listen() returned
    wakewords_listen,  \* Assistant.wakewords_listen
    detections,        \* number of detections sent so far
    tts_status,        \* what the last is_speaking() call returned
    discarded,         \* ids of the events discarded because of speaking
    discarded_in_call, \* the running listen() discarded an event
    stop_mark,         \* `detections` when the synthesizer last stopped
    sessions,          \* ids of the events recognize() was called for
    classified,        \* ids of the events classification was run for
    stages_in_call,    \* sessions opened and classifications run by this listen()
    stage_log,         \* what this listen()'s session returned, the text it
                       \* classified and what classification returned
    \* ---- one recognition session (stt.rs) ----
    stt_pc,            \* position of the thread in recognize()
    stream,            \* the capture stream: "none", "playing", "dropped"
    now,               \* the wall clock, in ticks
    start_time,        \* init_stream's start_time
    result_chan,       \* the session's result channel: queue of messages
    result_tx_alive,   \* the callback, owner of tx, exists: it has not panicked
                       \* and was not dropped with the stream
    chunks,            \* parity of the number of chunks delivered to the callback
    sends,             \* messages the callback sent so far
    last_chunk,        \* the last callback run: decoder state and message sent
    fed_after_send,    \* accept_waveform calls made after the first send
    stt_ret,           \* what recognize() returned
    \* ---- the classifier (intents.rs) ----
    config_intents,    \* IntentsConfig.intents
    intents,           \* IntentRecognizer.intents, once built
    built,             \* "no", "ok" or the error IntentRecognizer::build returned
    target,            \* the embedding of the text last classified
    closest,           \* what find_closest last returned
    recognized,        \* what IntentRecognizer::recognize last returned
    \* ---- WakewordConfig and the detection callback (wakeword.rs) ----
    wakeword_added,    \* WakewordConfig.wakeword_added
    profiles,          \* names of the wakewords the Rustpotter instance holds
    add_failed,        \* some add_wakeword_from_file call returned an error
    start_ret,         \* "none", or what WakewordConfig::start returned
    input_stream,      \* the capture stream: "none", "playing", "dropped"
    samples_per_frame, \* rustpotter_samples_per_frame
    buffer,            \* run_detection's buffer
    delivered,         \* every sample delivered to the callback, in order
    processed,         \* the frames handed to process_samples, in order
    tx_sent,           \* the names the callback sent, in order
    listener_rx,       \* the receiver of the events: "none", "alive", "dropped"
    send_failed,       \* the callback's send failed and its unwrap panicked
    \* ---- the capture device and WakewordConfig::build (wakeword.rs) ----
    device,            \* what the host reports: default and supported configs
    input_config,      \* "none", or what WakewordConfig::build returned
    stt_config,        \* "none", or what STTConfig::build returned
    \* ---- one call of compute_cosine_distance (intents.rs) ----
    cos_a,             \* the argument a
    cos_b,             \* the argument b
    cos_result         \* "none", or the value returned

orch_vars == <<rx, tx_alive, speaking, pc, wakeword, text, ret, wakewords_listen,
               detections, tts_status, discarded, discarded_in_call, stop_mark,
               sessions, classified, stages_in_call, stage_log>>
stt_vars == <<stt_pc, stream, now, start_time, result_chan, result_tx_alive,
              chunks, sends, last_chunk, fed_after_send, stt_ret>>
intent_vars == <<config_intents, intents, built, target, closest, recognized>>
wake_vars == <<wakeword_added, profiles, add_failed, start_ret, input_stream,
               samples_per_frame, buffer, delivered, processed, tx_sent,
               listener_rx, send_failed>>
device_vars == <<device, input_config, stt_config>>
cosine_vars == <<cos_a, cos_b, cos_result>>
vars == <<orch_vars, stt_vars, intent_vars, wake_vars, device_vars, cosine_vars>>

(***************************************************************************)
(* Values.                                                                 *)
(***************************************************************************)
\* main.rs registers "pizza"; a second profile exercises the listen flag.
Wakewords == {"pizza", "lamp"}
\* Transcripts a recognition session can finalize.
Texts == {"hello", "goodbye"}
\* Caller-supplied intent identifiers (the generic T).
IntentIds == {"A", "B"}

\* An event on the channel is the detection's name (a String); id and spk
\* are history: the detection's sequence number and whether the synthesizer
\* was speaking when the spotter detected it.
NoWakeword == [name |-> "", id |-> 0, spk |-> FALSE]
NoReturn == [kind |-> "none", wakeword |-> NoWakeword, intent |-> "", err |-> ""]

\* lib.rs:157-160 and 190-193  AssistantQuery { wakeword, intent }
AssistantQuery(w, i) ==
    [kind |-> "Ok", wakeword |-> w, intent |-> i, err |-> ""]
\* lib.rs:125 with the String left empty: an error that names no wakeword.
ProcessError_unnamed(w, e) ==
    [kind |-> "ProcessError", wakeword |-> NoWakeword, intent |-> "", err |-> e]
\* lib.rs:125  AssistantListenError::ProcessError(String, ...)
ProcessError(w, e) ==
    [kind |-> "ProcessError", wakeword |-> w, intent |-> "", err |-> e]
\* lib.rs:123  AssistantListenError::WakewordRecvError
WakewordRecvError ==
    [kind |-> "WakewordRecvError", wakeword |-> NoWakeword, intent |-> "", err |-> ""]

\* A similarity score (an f32): not-a-number, or the fraction num/den, den > 0.
NaN == [nan |-> TRUE, num |-> 0, den |-> 1]
NoClosest == [intent |-> 0, score |-> NaN]
\* intents.rs:110  compute_cosine_distance has not returned yet.
NoCosine == [nan |-> TRUE, num |-> 0, den |-> 0]
NoRecognized == [kind |-> "none", intent |-> 0]

\* lib.rs:89-95  Assistant.intent_recognizer: the intents IntentRecognizer::
\* build made of the add_intent calls, each with the embeddings of its
\* examples. main.rs gives every intent examples; add_intent also takes an
\* empty list, and build accepts intents without examples.
AssistantIntents ==
    {<<[id |-> "A", examples |-> <<<<1, 0, 0, 0>>>>],
       [id |-> "B", examples |-> <<<<1, 1, 1, 1>>>>]>>,
     <<[id |-> "A", examples |-> <<<<1, 0, 0, 0>>>>],
       [id |-> "B", examples |-> <<>>]>>,
     <<[id |-> "A", examples |-> <<>>],
       [id |-> "B", examples |-> <<>>]>>}

\* stt.rs:80-84  RecognitionResult, and stt.rs:87-94  RecognitionError
Final(t) == [kind |-> "Final", text |-> t]
Failed == [kind |-> "Failed", text |-> ""]
Cancelled == [kind |-> "Cancelled", text |-> ""]
RecognitionError(e) == [kind |-> e, text |-> ""]
NoResult == [kind |-> "none", text |-> ""]
\* lib.rs:138  a listen() call that has opened no session and classified nothing.
NoStages == [sessions |-> 0, classifications |-> 0]
\* lib.rs:138  a listen() call whose session and classification have not run.
NoStageLog == [session |-> "none", classify_text |-> "none", classify_ret |-> "none"]
NoChunk == [state |-> "none", msg |-> NoResult]

\* Sample values a capture chunk can hold.
Samples == {0, 1}
\* wakeword.rs:248-254  process_samples returned None for a frame.
NoDetection == ""

\* cpal::SupportedStreamConfig: sample format, channel count, sample rate.
NoStreamConfig == [format |-> "none", channels |-> 0, rate |-> 0]
\* wakeword.rs:55-57  the host has no default input device.
NoDevice == [status |-> "no_device", default |-> NoStreamConfig, supported |-> <<>>]
NoConfig == [kind |-> "none", config |-> NoStreamConfig]

(***************************************************************************)
(* The orchestrator: Assistant::listen, with the wakeword spotter, the     *)
(* synthesizer and the caller as its environment.                          *)
(***************************************************************************)
idle_stt ==
    /\ stt_pc = "unused" /\ stream = "none" /\ now = 0 /\ start_time = 0
    /\ result_chan = <<>> /\ result_tx_alive = FALSE /\ chunks = 0
    /\ sends = <<>> /\ last_chunk = NoChunk
    /\ fed_after_send = 0 /\ stt_ret = NoResult

\* wakeword.rs:53-117  No WakewordConfig of its own is followed: the
\* specifications about other components leave these variables alone.
idle_wake ==
    /\ wakeword_added = FALSE /\ profiles = {} /\ add_failed = FALSE
    /\ start_ret = "unused" /\ input_stream = "none"
    /\ samples_per_frame = 1 /\ buffer = <<>> /\ delivered = <<>>
    /\ processed = <<>> /\ tx_sent = <<>>
    /\ listener_rx = "none" /\ send_failed = FALSE

\* wakeword.rs:54-59  No device negotiation is followed.
idle_device ==
    /\ device = NoDevice /\ input_config = NoConfig /\ stt_config = NoConfig

\* intents.rs:110  No call of compute_cosine_distance on its own is followed.
idle_cosine ==
    /\ cos_a = <<>> /\ cos_b = <<>> /\ cos_result = NoCosine

idle_intents ==
    /\ config_intents = <<>> /\ intents = <<>> /\ built = "unused"
    /\ target = <<>> /\ closest = NoClosest
    /\ recognized = NoRecognized

\* lib.rs:93-105  AssistantConfig::start: the Assistant as constructed.
\* wakewords_listen holds the names added with the listen flag (lib.rs:83-85).
Init ==
    /\ rx = <<>>
    /\ tx_alive = TRUE
    /\ speaking = FALSE
    /\ pc = "idle"
    /\ wakeword = NoWakeword
    /\ text = ""
    /\ ret = NoReturn
    /\ wakewords_listen \in SUBSET Wakewords
    /\ detections = 0
    /\ tts_status = "none"
    /\ discarded = {}
    /\ discarded_in_call = FALSE
    /\ stop_mark = 0
    /\ sessions = {}
    /\ classified = {}
    /\ stages_in_call = NoStages
    /\ stage_log = NoStageLog
    /\ config_intents = <<>>
    /\ intents \in AssistantIntents
    /\ built = "ok"
    /\ target = <<>>
    /\ closest = NoClosest
    /\ recognized = NoRecognized
    /\ idle_stt
    /\ idle_wake
    /\ idle_device
    /\ idle_cosine

\* wakeword.rs:256 with a send that gives up while the receiver is not
\* waiting in recv(): the detection is counted and its event is lost.
run_detection_send_unless_busy(name) ==
    /\ tx_alive
    /\ detections < MaxDetections
    /\ detections' = detections + 1
    /\ rx' = IF pc = "recv"
                THEN Append(rx, [name |-> name, id |-> detections + 1, spk |-> speaking])
                ELSE rx
    /\ UNCHANGED <<tx_alive, speaking, pc, wakeword, text, ret, wakewords_listen,
                   tts_status, discarded, discarded_in_call, stop_mark,
                   sessions, classified, stages_in_call, stage_log>>

\* wakeword.rs:254-257  run_detection: a scoring call yields a detection and
\* its name is sent on the (unbounded) event channel.
run_detection_send(name) ==
    /\ tx_alive
    /\ detections < MaxDetections
    /\ detections' = detections + 1
    /\ rx' = Append(rx, [name |-> name, id |-> detections + 1, spk |-> speaking])
    /\ UNCHANGED <<tx_alive, speaking, pc, wakeword, text, ret, wakewords_listen,
                   tts_status, discarded, discarded_in_call, stop_mark,
                   sessions, classified, stages_in_call, stage_log>>

\* main.rs:86-88  "Stream shut down": the capture stream dies and with it
\* the callback that owns the sending end of the event channel.
stream_shut_down ==
    /\ tx_alive
    /\ tx_alive' = FALSE
    /\ UNCHANGED <<rx, speaking, pc, wakeword, text, ret, wakewords_listen,
                   detections, tts_status, discarded, discarded_in_call,
                   stop_mark, sessions, classified, stages_in_call, stage_log>>

\* lib.rs:196-198  Assistant::speak takes &mut self: the caller can call it
\* only between two listen() calls. The synthesizer then speaks on its own.
speak ==
    /\ pc = "idle"
    /\ ~speaking
    /\ speaking' = TRUE
    /\ UNCHANGED <<rx, tx_alive, pc, wakeword, text, ret, wakewords_listen,
                   detections, tts_status, discarded, discarded_in_call,
                   stop_mark, sessions, classified, stages_in_call, stage_log>>

\* The synthesizer finishes the utterance.
speech_ends ==
    /\ speaking
    /\ speaking' = FALSE
    /\ stop_mark' = detections
    /\ UNCHANGED <<rx, tx_alive, pc, wakeword, text, ret, wakewords_listen,
                   detections, tts_status, discarded, discarded_in_call,
                   sessions, classified, stages_in_call, stage_log>>

\* tts.is_speaking(): Result<bool, Error>. The synthesizer is an external
\* service: the call reports its state or fails.
is_speaking == {"Err", IF speaking THEN "OkTrue" ELSE "OkFalse"}

\* main.rs:84  the caller calls assistant.listen().
listen_call ==
    /\ pc = "idle"
    /\ pc' = "recv"
    /\ ret' = NoReturn
    /\ wakeword' = NoWakeword
    /\ text' = ""
    /\ discarded_in_call' = FALSE
    /\ stages_in_call' = NoStages
    /\ stage_log' = NoStageLog
    /\ UNCHANGED <<rx, tx_alive, speaking, wakewords_listen, detections,
                   tts_status, discarded, stop_mark, sessions, classified>>

\* lib.rs:139 with a receive that fails as soon as the channel is
\* disconnected, queued events or not.
listen_recv_disconnected_first ==
    /\ pc = "recv"
    /\ \/ /\ rx # <<>>
          /\ tx_alive
          /\ wakeword' = Head(rx)
          /\ rx' = Tail(rx)
          /\ pc' = "is_speaking"
          /\ UNCHANGED ret
       \/ /\ ~tx_alive
          /\ ret' = WakewordRecvError
          /\ pc' = "idle"
          /\ UNCHANGED <<rx, wakeword>>
    /\ UNCHANGED <<tx_alive, speaking, text, wakewords_listen, detections,
                   tts_status, discarded, discarded_in_call, stop_mark,
                   sessions, classified, stages_in_call, stage_log>>

\* lib.rs:139, wakeword.rs:185-187  self.wakeword_listener.listen()?:
\* rx.recv() blocks while the channel is empty and connected, yields the
\* oldest event, and fails once the channel is empty and disconnected.
listen_recv ==
    /\ pc = "recv"
    /\ \/ /\ rx # <<>>
          /\ wakeword' = Head(rx)
          /\ rx' = Tail(rx)
          /\ pc' = "is_speaking"
          /\ UNCHANGED ret
       \/ /\ rx = <<>>
          /\ ~tx_alive
          /\ ret' = WakewordRecvError
          /\ pc' = "idle"
          /\ UNCHANGED <<rx, wakeword>>
    /\ UNCHANGED <<tx_alive, speaking, text, wakewords_listen, detections,
                   tts_status, discarded, discarded_in_call, stop_mark,
                   sessions, classified, stages_in_call, stage_log>>

\* lib.rs:156 without the test: every loaded wakeword opens a session.
listens_for_any(w) == w.name \in Wakewords

\* lib.rs:156  self.wakewords_listen.contains(&wakeword)
listens_for(w) == w.name \in wakewords_listen

\* lib.rs:140-161  match self.tts.is_speaking(), then the listen-flag test.
listen_is_speaking ==
    /\ pc = "is_speaking"
    /\ \E r \in is_speaking :
        /\ tts_status' = r
        /\ \/ /\ r = "Err"
              /\ ret' = ProcessError(wakeword, "SpeechRecognitionError")
              /\ pc' = "idle"
              /\ UNCHANGED <<discarded, discarded_in_call>>
           \/ /\ r = "OkTrue"
              /\ pc' = "finish_speaking"
              /\ discarded' = discarded \cup {wakeword.id}
              /\ discarded_in_call' = TRUE
              /\ UNCHANGED ret
           \/ /\ r = "OkFalse"
              /\ IF listens_for(wakeword)
                    THEN /\ pc' = "recognize"
                         /\ UNCHANGED ret
                    ELSE /\ ret' = AssistantQuery(wakeword, "None")
                         /\ pc' = "idle"
              /\ UNCHANGED <<discarded, discarded_in_call>>
    /\ UNCHANGED <<rx, tx_alive, speaking, wakeword, text, wakewords_listen,
                   detections, stop_mark, sessions, classified, stages_in_call, stage_log>>

\* lib.rs:149-150 and 200-205  `_ = self.finish_speaking(); self.listen()`:
\* one poll of the loop `while self.tts.is_speaking()? { sleep(100 ms) }`.
\* The loop ends on Ok(false) and, through `?`, on Err; its result is
\* dropped and listen() is entered again, at the receive.
finish_speaking ==
    /\ pc = "finish_speaking"
    /\ \E r \in is_speaking :
        /\ tts_status' = r
        /\ pc' = IF r = "OkTrue" THEN "finish_speaking" ELSE "recv"
    /\ UNCHANGED <<rx, tx_alive, speaking, wakeword, text, ret, wakewords_listen,
                   detections, discarded, discarded_in_call, stop_mark,
                   sessions, classified, stages_in_call, stage_log>>

\* stt.rs:111-121  how recognize() gets to its wait: Recognizer::new or
\* stream.play() fails and it returns, build_input_stream fails and the
\* expect of stt.rs:157-159 panics, or the stream plays.
RecognizeStarts ==
    {"FailedCreateRecognizer", "FailedBuildStream", "FailedPlayStream", "Playing"}

\* stt.rs:123-127  what recognize() returns from its wait in rx.recv().
RecognizeReturns == {"FailedReceiveResult", "Failed", "Cancelled"} \cup Texts

\* lib.rs:163-165, stt.rs:111-121  listen() calls recognize() for
\* `wakeword`: the session is opened. A failure to create the recognizer
\* or to play the stream is returned at once (lib.rs:166-171); a panic in
\* init_stream unwinds through listen(), which returns nothing.
listen_recognize ==
    /\ pc = "recognize"
    /\ sessions' = sessions \cup {wakeword.id}
    /\ stages_in_call' = [stages_in_call EXCEPT !.sessions = @ + 1]
    /\ \E s \in RecognizeStarts :
        \/ /\ s = "Playing"
           /\ pc' = "recognizing"
           /\ UNCHANGED <<ret, stage_log>>
        \/ /\ s = "FailedBuildStream"
           /\ pc' = "panicked"
           /\ UNCHANGED <<ret, stage_log>>
        \/ /\ s \in {"FailedCreateRecognizer", "FailedPlayStream"}
           /\ stage_log' = [stage_log EXCEPT !.session = s]
           /\ ret' = ProcessError(wakeword, "SpeechRecognitionInitializationError")
           /\ pc' = "idle"
    /\ UNCHANGED <<rx, tx_alive, speaking, wakeword, text, wakewords_listen,
                   detections, tts_status, discarded, discarded_in_call,
                   stop_mark, classified>>

\* lib.rs:165-183 with a second attempt after RecognitionResult::Failed:
\* the session is opened again instead of returning the error.
listen_recognize_result_retry ==
    /\ pc = "recognizing"
    /\ \E r \in RecognizeReturns :
        /\ stage_log' = [stage_log EXCEPT !.session = r]
        /\ \/ /\ r \in Texts
              /\ text' = r
              /\ pc' = "classify"
              /\ UNCHANGED ret
           \/ /\ r = "Failed"
              /\ stages_in_call.sessions < 2
              /\ pc' = "recognize"
              /\ UNCHANGED <<ret, text>>
           \/ /\ r \notin Texts \cup {"Failed"}
              /\ ret' = ProcessError(wakeword, "SpeechRecognitionError")
              /\ pc' = "idle"
              /\ UNCHANGED text
    /\ UNCHANGED <<rx, tx_alive, speaking, wakeword, wakewords_listen, detections,
                   tts_status, discarded, discarded_in_call, stop_mark,
                   sessions, classified, stages_in_call>>

\* stt.rs:123-127, lib.rs:165-183  the wait of recognize() in rx.recv()
\* ends, while the other threads ran, and listen() matches on the result.
listen_recognize_result ==
    /\ pc = "recognizing"
    /\ \E r \in RecognizeReturns :
        /\ stage_log' = [stage_log EXCEPT !.session = r]
        /\ \/ /\ r \in Texts
              /\ text' = r
              /\ pc' = "classify"
              /\ UNCHANGED ret
           \/ /\ r = "FailedReceiveResult"
              /\ ret' = ProcessError(wakeword, "SpeechRecognitionInitializationError")
              /\ pc' = "idle"
              /\ UNCHANGED text
           \/ /\ r = "Failed"
              /\ ret' = ProcessError(wakeword, "SpeechRecognitionError")
              /\ pc' = "idle"
              /\ UNCHANGED text
           \/ /\ r = "Cancelled"
              /\ ret' = ProcessError(wakeword, "SpeechRecognitionTimeout")
              /\ pc' = "idle"
              /\ UNCHANGED text
    /\ UNCHANGED <<rx, tx_alive, speaking, wakeword, wakewords_listen, detections,
                   tts_status, discarded, discarded_in_call, stop_mark,
                   sessions, classified, stages_in_call>>

\* intents.rs:119  the flat_map of find_closest: the intents that put
\* examples into the scan.
with_examples(ints) == {i \in 1..Len(ints) : ints[i].examples # <<>>}

\* intents.rs:92-107, 117-124  what intent_recognizer.recognize(&text) can
\* do: embed fails (95), the best score is below the floor (102-104), or
\* the id of an intent of the scan is returned; with no example at all the
\* scan is empty and the unwrap of 123 panics once embed has succeeded.
ClassifyReturns(ints) ==
    IF with_examples(ints) = {}
       THEN {"TextEmbeddingError", "panic"}
       ELSE {"TextEmbeddingError", "ScoreTooLow"}
            \cup {ints[i].id : i \in with_examples(ints)}

\* lib.rs:185-188 with recognize called on some other transcript than the
\* `text` the session returned.
listen_classify_other_text ==
    /\ pc = "classify"
    /\ classified' = classified \cup {wakeword.id}
    /\ stages_in_call' = [stages_in_call EXCEPT !.classifications = @ + 1]
    /\ \E r \in ClassifyReturns(intents), t \in Texts \ {text} :
        IF r = "panic"
           THEN /\ stage_log' = [stage_log EXCEPT !.classify_text = t]
                /\ pc' = "panicked"
                /\ UNCHANGED ret
           ELSE /\ stage_log' = [stage_log EXCEPT !.classify_text = t, !.classify_ret = r]
                /\ ret' = IF r \in IntentIds
                             THEN AssistantQuery(wakeword, r)
                             ELSE ProcessError(wakeword, "IntentRecognizerError")
                /\ pc' = "idle"
    /\ UNCHANGED <<rx, tx_alive, speaking, wakeword, text, wakewords_listen,
                   detections, tts_status, discarded, discarded_in_call,
                   stop_mark, sessions>>

\* lib.rs:185-193  classification of `text` and the final result; a panic
\* in find_closest unwinds through listen(), which returns nothing.
listen_classify ==
    /\ pc = "classify"
    /\ classified' = classified \cup {wakeword.id}
    /\ stages_in_call' = [stages_in_call EXCEPT !.classifications = @ + 1]
    /\ \E r \in ClassifyReturns(intents) :
        IF r = "panic"
           THEN /\ stage_log' = [stage_log EXCEPT !.classify_text = text]
                /\ pc' = "panicked"
                /\ UNCHANGED ret
           ELSE /\ stage_log' = [stage_log EXCEPT !.classify_text = text, !.classify_ret = r]
                /\ ret' = IF r \in IntentIds
                             THEN AssistantQuery(wakeword, r)
                             ELSE ProcessError(wakeword, "IntentRecognizerError")
                /\ pc' = "idle"
    /\ UNCHANGED <<rx, tx_alive, speaking, wakeword, text, wakewords_listen,
                   detections, tts_status, discarded, discarded_in_call,
                   stop_mark, sessions>>

Next ==
    \/ \E name \in Wakewords : run_detection_send(name) /\ UNCHANGED <<stt_vars, intent_vars, wake_vars, device_vars, cosine_vars>>
    \/ stream_shut_down /\ UNCHANGED <<stt_vars, intent_vars, wake_vars, device_vars, cosine_vars>>
    \/ speak /\ UNCHANGED <<stt_vars, intent_vars, wake_vars, device_vars, cosine_vars>>
    \/ speech_ends /\ UNCHANGED <<stt_vars, intent_vars, wake_vars, device_vars, cosine_vars>>
    \/ listen_call /\ UNCHANGED <<stt_vars, intent_vars, wake_vars, device_vars, cosine_vars>>
    \/ listen_recv /\ UNCHANGED <<stt_vars, intent_vars, wake_vars, device_vars, cosine_vars>>
    \/ listen_is_speaking /\ UNCHANGED <<stt_vars, intent_vars, wake_vars, device_vars, cosine_vars>>
    \/ finish_speaking /\ UNCHANGED <<stt_vars, intent_vars, wake_vars, device_vars, cosine_vars>>
    \/ listen_recognize /\ UNCHANGED <<stt_vars, intent_vars, wake_vars, device_vars, cosine_vars>>
    \/ listen_recognize_result /\ UNCHANGED <<stt_vars, intent_vars, wake_vars, device_vars, cosine_vars>>
    \/ listen_classify /\ UNCHANGED <<stt_vars, intent_vars, wake_vars, device_vars, cosine_vars>>

Spec == Init /\ [][Next]_vars

(***************************************************************************)
(* Claims about the orchestrator, checked under Spec.                      *)
(***************************************************************************)
\* No recognition session is opened and no classification is run for an
\* event that was received while the synthesizer reported speaking.
NoStageForDiscarded ==
    /\ sessions \cap discarded = {}
    /\ classified \cap discarded = {}

\* Such an event is never the wakeword of a result or of a tagged failure.
NoReturnForDiscarded == ret.wakeword.id \notin discarded

\* After a discard, listen() is back at the receive only once the
\* synthesizer has reported "not speaking".
WaitsForNotSpeaking ==
    (pc = "recv" /\ discarded_in_call) => tts_status = "OkFalse"

\* C1: a wakeword event received while the synthesizer reports speaking gets
\* no recognition session and no classification, listen() waits until the
\* synthesizer reports not speaking, and the event is never the wakeword of
\* the result or of a tagged failure.
C1_SpeakingWakewordIsDiscarded ==
    /\ NoStageForDiscarded
    /\ WaitsForNotSpeaking
    /\ NoReturnForDiscarded

\* The running listen() call went past the speaking check with `wakeword`.
ProceedsOnWakeword ==
    \/ pc \in {"recognize", "recognizing", "classify"}
    \/ pc = "idle" /\ ret.kind = "Ok"

\* C2: after listen() discarded a wakeword for speaking, the event the cycle
\* proceeds on was detected after the synthesizer stopped speaking; an event
\* detected while the synthesizer was speaking is never proceeded on.
C2_ProceedsOnlyOnFreshWakeword ==
    (discarded_in_call /\ ProceedsOnWakeword) =>
        /\ ~wakeword.spk
        /\ wakeword.id > stop_mark

(***************************************************************************)
(* One recognition session: the thread in recognize(), the audio backend's *)
(* callback thread running data_callback, and the clock.                   *)
(***************************************************************************)
idle_orch ==
    /\ rx = <<>> /\ tx_alive = FALSE /\ speaking = FALSE /\ pc = "unused"
    /\ wakeword = NoWakeword /\ text = "" /\ ret = NoReturn
    /\ wakewords_listen = {} /\ detections = 0 /\ tts_status = "none"
    /\ discarded = {} /\ discarded_in_call = FALSE /\ stop_mark = 0
    /\ sessions = {} /\ classified = {} /\ stages_in_call = NoStages
    /\ stage_log = NoStageLog

\* lib.rs:163  STTSentenceRecognizer::new: a session about to call recognize().
InitSTT ==
    /\ stt_pc = "start"
    /\ stream = "none"
    /\ now = 0
    /\ start_time = 0
    /\ result_chan = <<>>
    /\ result_tx_alive = FALSE
    /\ chunks = 0
    /\ sends = <<>>
    /\ last_chunk = NoChunk
    /\ fed_after_send = 0
    /\ stt_ret = NoResult
    /\ idle_orch
    /\ idle_intents
    /\ idle_wake
    /\ idle_device
    /\ idle_cosine

\* The wall clock advances by one tick. A session starts within the first
\* second of the behaviour, so that its timeout is within MaxSecs.
tick ==
    /\ now < MaxSecs * TicksPerSec
    /\ stt_pc = "start" => now < TicksPerSec
    /\ now' = now + 1
    /\ UNCHANGED <<stt_pc, stream, start_time, result_chan, result_tx_alive,
                   chunks, sends, last_chunk, fed_after_send, stt_ret>>

\* stt.rs:111-121  Recognizer::new(..).ok_or(..)?, mpsc::channel(),
\* init_stream (start_time = Instant::now(), stt.rs:137; build_input_stream
\* (..).expect(..) panics when the stream cannot be built, stt.rs:157-159)
\* and stream.play()?.
recognize_start ==
    /\ stt_pc = "start"
    /\ \E outcome \in {"FailedCreateRecognizer", "FailedBuildStream",
                        "FailedPlayStream", "Playing"} :
        \/ /\ outcome = "FailedCreateRecognizer"
           /\ stt_ret' = RecognitionError(outcome)
           /\ stt_pc' = "returned"
           /\ UNCHANGED <<stream, start_time, result_tx_alive>>
        \/ /\ outcome = "FailedBuildStream"
           /\ start_time' = now
           /\ stt_pc' = "panicked"
           /\ UNCHANGED <<stream, stt_ret, result_tx_alive>>
        \/ /\ outcome = "FailedPlayStream"
           /\ start_time' = now
           /\ stt_ret' = RecognitionError(outcome)
           /\ stream' = "dropped"
           /\ result_tx_alive' = FALSE
           /\ stt_pc' = "returned"
        \/ /\ outcome = "Playing"
           /\ start_time' = now
           /\ stream' = "playing"
           /\ result_tx_alive' = TRUE
           /\ stt_pc' = "recv"
           /\ UNCHANGED stt_ret
    /\ UNCHANGED <<now, result_chan, chunks, sends, last_chunk, fed_after_send>>

\* A wrong unit for the timeout test: the duration's ticks, not its seconds.
as_secs_in_ticks(d) == d

\* Duration::as_secs: the whole seconds of a duration given in ticks.
as_secs(d) == d \div TicksPerSec

\* stt.rs:152 without the test: the session never times out.
never_timed_out(elapsed) == FALSE

\* stt.rs:152  start_time.elapsed().as_secs() > 20
timed_out(elapsed) == as_secs(elapsed) > TimeoutSecs

\* recognizer.accept_waveform(data): the decoder's state after the chunk, or
\* an error (the callback unwraps it and panics).
accept_waveform == {"Running", "Finalized", "Failed", "Err"}

\* stt.rs:143-156  the message data_callback sends for a decoder state.
callback_message(state, elapsed, t) ==
    CASE state = "Finalized" -> Final(t)
      [] state = "Failed" -> Failed
      [] state = "Running" /\ timed_out(elapsed) -> Cancelled
      [] OTHER -> NoResult

\* stt.rs:143-156  data_callback on one delivered chunk. The backend calls
\* it while the stream plays, whatever the thread in recognize() is doing.
\* The backend goes on delivering until the stream is dropped; followed are
\* any number of deliveries up to the first message and MaxChunks after it.
data_callback ==
    /\ stream = "playing"
    /\ result_tx_alive
    /\ fed_after_send < MaxChunks
    /\ chunks' = (chunks + 1) % 2
    /\ fed_after_send' = IF sends # <<>> THEN fed_after_send + 1 ELSE fed_after_send
    /\ \E state \in accept_waveform, t \in Texts :
        LET elapsed == now - start_time
            msg == callback_message(state, elapsed, t)
        IN  /\ state # "Finalized" => t = CHOOSE x \in Texts : TRUE
            /\ last_chunk' = [state |-> state, msg |-> msg]
            /\ IF state = "Err"
                  THEN /\ result_tx_alive' = FALSE
                       /\ UNCHANGED <<result_chan, sends>>
                  ELSE /\ UNCHANGED result_tx_alive
                       /\ IF msg # NoResult
                             THEN /\ result_chan' = Append(result_chan, msg)
                                  /\ sends' = Append(sends, msg)
                             ELSE UNCHANGED <<result_chan, sends>>
    /\ UNCHANGED <<stt_pc, stream, now, start_time, stt_ret>>

\* stt.rs:123-125  rx.recv().map_err(|_| FailedReceiveResult)?: blocks while
\* the channel is empty and the callback (owner of tx) lives.
recognize_recv ==
    /\ stt_pc = "recv"
    /\ \/ /\ result_chan # <<>>
          /\ stt_ret' = Head(result_chan)
          /\ result_chan' = Tail(result_chan)
          /\ stt_pc' = "drop"
          /\ UNCHANGED stream
       \/ /\ result_chan = <<>>
          /\ ~result_tx_alive
          /\ stt_ret' = RecognitionError("FailedReceiveResult")
          /\ stream' = "dropped"
          /\ stt_pc' = "returned"
          /\ UNCHANGED result_chan
    /\ UNCHANGED <<now, start_time, result_tx_alive, chunks, sends, last_chunk,
                   fed_after_send>>

\* stt.rs:126-127  drop(stream); Ok(result). The callback closure goes
\* with the stream, and with it the Sender and the Recognizer it owns.
recognize_drop ==
    /\ stt_pc = "drop"
    /\ stream' = "dropped"
    /\ result_tx_alive' = FALSE
    /\ stt_pc' = "returned"
    /\ UNCHANGED <<now, start_time, result_chan, chunks, sends,
                   last_chunk, fed_after_send, stt_ret>>

NextSTT ==
    \/ tick /\ UNCHANGED <<orch_vars, intent_vars, wake_vars, device_vars, cosine_vars>>
    \/ recognize_start /\ UNCHANGED <<orch_vars, intent_vars, wake_vars, device_vars, cosine_vars>>
    \/ data_callback /\ UNCHANGED <<orch_vars, intent_vars, wake_vars, device_vars, cosine_vars>>
    \/ recognize_recv /\ UNCHANGED <<orch_vars, intent_vars, wake_vars, device_vars, cosine_vars>>
    \/ recognize_drop /\ UNCHANGED <<orch_vars, intent_vars, wake_vars, device_vars, cosine_vars>>

SpecSTT == InitSTT /\ [][NextSTT]_vars

\* One step of the session's own variables.
STTStep(A) ==
    A /\ UNCHANGED <<orch_vars, intent_vars, wake_vars, device_vars, cosine_vars>>

\* The session when time advances (tick), the audio backend keeps
\* delivering chunks while the stream plays (data_callback) and the thread
\* that called recognize() keeps running.
SpecSTTLive ==
    /\ InitSTT
    /\ [][NextSTT]_vars
    /\ WF_vars(STTStep(tick))
    /\ WF_vars(STTStep(data_callback))
    /\ WF_vars(STTStep(recognize_start \/ recognize_recv \/ recognize_drop))

(***************************************************************************)
(* Claims about a recognition session, checked under SpecSTT.              *)
(***************************************************************************)
\* The terminal outcomes of a session.
Outcomes == {Final(t) : t \in Texts} \cup {Failed, Cancelled}

\* C3: the capture callback sends at most one message on the session's
\* result channel over all its chunk deliveries, and recognize() returns
\* that one outcome.
C3_ExactlyOneOutcome ==
    /\ Len(sends) <= 1
    /\ (stt_pc = "returned" /\ stt_ret \in Outcomes) => sends = <<stt_ret>>

\* C4: accept_waveform is never invoked after the session's first outcome
\* was sent, under every interleaving of the two threads.
C4_NoChunkFedAfterOutcome == fed_after_send = 0

\* The step is a run of data_callback on one chunk.
ChunkDelivered == chunks' # chunks

\* C5: whenever the callback sends Cancelled, the decoder state for that
\* chunk is Running and at least 20 seconds have elapsed since start_time.
C5_NoCancelBefore20s ==
    [][(ChunkDelivered /\ last_chunk'.msg = Cancelled) =>
            /\ last_chunk'.state = "Running"
            /\ now - start_time >= TimeoutSecs * TicksPerSec]_vars

\* A Cancelled was sent, and received by recognize().
C5_Witness ==
    /\ last_chunk.msg = Cancelled
    /\ stt_ret = Cancelled
    /\ stt_pc = "returned"

\* C6: a chunk delivered while the decoder is Running at any elapsed time
\* greater than 20 seconds makes the callback send Cancelled.
C6_CancelOnFirstChunkAfter20s ==
    [][(/\ ChunkDelivered
        /\ last_chunk'.state = "Running"
        /\ now - start_time > TimeoutSecs * TicksPerSec) =>
            last_chunk'.msg = Cancelled]_vars

(***************************************************************************)
(* The classifier: IntentsConfig::add_intent, IntentRecognizer::build and  *)
(* IntentRecognizer::recognize with find_closest.                          *)
(***************************************************************************)
\* Example phrases and texts to classify.
Phrases == {"hello", "hi", "goodbye", "no", ""}

\* model.embed(..): the embedding model is external; these are the vectors
\* it gives the sample phrases. Every vector has an integer magnitude and
\* small integer components, so that the f32 products, sums and square
\* roots of compute_cosine_distance are exact and its quotient is the
\* correctly rounded value of an exact fraction.
embed(t) ==
    CASE t = "hello" -> <<1, 0, 0, 0>>
      [] t = "hi" -> <<2, 0, 0, 0>>
      [] t = "goodbye" -> <<1, 1, 1, 1>>
      [] t = "no" -> <<-1, 0, 0, 0>>
      [] OTHER -> <<0, 0, 0, 0>>

\* All sequences over S of length at most n.
SeqsUpTo(S, n) == UNION {[1..k -> S] : k \in 0..n}

RECURSIVE sum_products(_, _)
\* intents.rs:111  a.iter().zip(b.iter()).map(|(x, y)| x * y).sum()
sum_products(a, b) ==
    IF a = <<>> \/ b = <<>> THEN 0
    ELSE Head(a) * Head(b) + sum_products(Tail(a), Tail(b))

\* f32::sqrt on a perfect square.
sqrt(n) == CHOOSE r \in 0..n : r * r = n

\* intents.rs:112-113 without the .sqrt(): the squared magnitude.
magnitude_squared(a) == sum_products(a, a)

\* intents.rs:112-113  a.iter().map(|x| x * x).sum::<f32>().sqrt()
magnitude(a) == sqrt(sum_products(a, a))

\* intents.rs:110-115  dot_product / (magnitude_a * magnitude_b); in f32,
\* 0.0 / 0.0 is NaN, and the dot product is 0 when a magnitude is 0.
compute_cosine_distance(a, b) ==
    LET dot_product == sum_products(a, b)
        magnitudes == magnitude(a) * magnitude(b)
    IN  IF magnitudes = 0 THEN NaN
        ELSE [nan |-> FALSE, num |-> dot_product, den |-> magnitudes]

\* f32::partial_cmp: None when either operand is NaN.
partial_cmp(a, b) ==
    IF a.nan \/ b.nan THEN "None"
    ELSE IF a.num * b.den < b.num * a.den THEN "Less"
    ELSE IF a.num * b.den = b.num * a.den THEN "Equal"
    ELSE "Greater"

\* The comparator with its operands swapped.
compare_swapped(a, b) ==
    LET c == partial_cmp(b.score, a.score) IN IF c = "None" THEN "Less" ELSE c

\* intents.rs:122  |a, b| a.1.partial_cmp(&b.1).unwrap_or(Ordering::Less)
compare(a, b) ==
    LET c == partial_cmp(a.score, b.score) IN IF c = "None" THEN "Less" ELSE c

\* A fold that keeps the earlier of two equal elements.
max_by_keep_first(x, y) == IF compare(x, y) \in {"Greater", "Equal"} THEN x ELSE y

\* Iterator::max_by's fold step: x is the maximum so far, y the next
\* element; `match compare(&x, &y) { Greater => x, _ => y }`.
max_by_fold(x, y) == IF compare(x, y) = "Greater" THEN x ELSE y

RECURSIVE reduce(_, _)
\* Iterator::reduce with max_by's fold, from the accumulator acc.
reduce(acc, rest) ==
    IF rest = <<>> THEN acc
    ELSE reduce(max_by_fold(acc, Head(rest)), Tail(rest))

RECURSIVE scored(_, _, _)
\* intents.rs:118-121  the scan: intents in order, the examples of each in
\* order, each paired with its intent and its similarity to the target.
\* The reference to the intent's id is the intent's index.
scored(ints, i, tgt) ==
    IF i > Len(ints) THEN <<>>
    ELSE [k \in 1..Len(ints[i].examples) |->
              [intent |-> i, score |-> compute_cosine_distance(ints[i].examples[k], tgt)]]
         \o scored(ints, i + 1, tgt)

\* intents.rs:117-124  find_closest, for a scan that is not empty.
find_closest(ints, tgt) ==
    LET scan == scored(ints, 1, tgt) IN reduce(Head(scan), Tail(scan))

\* intents.rs:102  score < 0.5 (false for NaN)
score_too_low(score) == ~score.nan /\ score.num * FloorDen < FloorNum * score.den

RECURSIVE count_examples(_)
count_examples(cfg) ==
    IF cfg = <<>> THEN 0 ELSE Len(Head(cfg).examples) + count_examples(Tail(cfg))

\* intents.rs:19-24  IntentsConfig::new
InitIntent ==
    /\ config_intents = <<>>
    /\ intents = <<>>
    /\ built = "no"
    /\ target = <<>>
    /\ closest = NoClosest
    /\ recognized = NoRecognized
    /\ idle_orch
    /\ idle_stt
    /\ idle_wake
    /\ idle_device
    /\ idle_cosine

\* intents.rs:26-28  add_intent: self.intents.push(Intent { id, examples }).
\* The id is the caller's; here it is the position of the intent.
add_intent(examples) ==
    /\ built = "no"
    /\ Len(config_intents) < MaxIntents
    /\ count_examples(config_intents) + Len(examples) <= MaxExamples
    /\ config_intents' = Append(config_intents,
                                [id |-> Len(config_intents) + 1, examples |-> examples])
    /\ UNCHANGED <<intents, built, target, closest, recognized>>

\* intents.rs:64-66 placed after the model is created (intents.rs:68-71):
\* the outcome of build when the emptiness check comes second.
build_result_model_first(cfg, model_ok) ==
    IF ~model_ok THEN "TextEmbeddingError"
    ELSE IF cfg = <<>> THEN "NoIntentsProvided"
    ELSE "ok"

\* intents.rs:63-90  the outcome of IntentRecognizer::build: the emptiness
\* check comes first (64-66), then TextEmbedding::try_new (68-71) and the
\* embed calls (77-79), each leaving through `?` with the model's error.
build_result(cfg, model_ok) ==
    IF cfg = <<>> THEN "NoIntentsProvided"
    ELSE IF model_ok THEN "ok"
    ELSE "TextEmbeddingError"

\* intents.rs:63-90  IntentRecognizer::build: fails on an empty list, when
\* the embedding model cannot be created, and when an embed call fails.
\* model_ok is the behaviour of the embedding model in this call.
build ==
    /\ built = "no"
    /\ \E model_ok \in BOOLEAN :
          /\ built' = build_result(config_intents, model_ok)
          /\ IF built' = "ok"
                THEN intents' = [i \in 1..Len(config_intents) |->
                        [id |-> config_intents[i].id,
                         examples |-> [k \in 1..Len(config_intents[i].examples) |->
                                          embed(config_intents[i].examples[k])]]]
                ELSE UNCHANGED intents
    /\ UNCHANGED <<config_intents, target, closest, recognized>>

\* intents.rs:92-107  IntentRecognizer::recognize(text). The recognizer is
\* immutable once built: one call covers every call of a behaviour.
recognize(t) ==
    /\ built = "ok"
    /\ recognized = NoRecognized
    /\ \E embed_ok \in BOOLEAN :
        IF ~embed_ok
           THEN /\ recognized' = [kind |-> "TextEmbeddingError", intent |-> 0]
                /\ UNCHANGED <<target, closest>>
           ELSE /\ target' = embed(t)
                /\ IF scored(intents, 1, embed(t)) = <<>>
                      THEN /\ recognized' = [kind |-> "panic", intent |-> 0]
                           /\ closest' = NoClosest
                      ELSE LET found == find_closest(intents, embed(t))
                           IN  /\ closest' = found
                               /\ recognized' =
                                     IF score_too_low(found.score)
                                        THEN [kind |-> "ScoreTooLow", intent |-> 0]
                                        ELSE [kind |-> "Ok", intent |-> found.intent]
    /\ UNCHANGED <<config_intents, intents, built>>

NextIntent ==
    \/ \E examples \in SeqsUpTo(Phrases, MaxExamples - count_examples(config_intents)) :
          add_intent(examples) /\ UNCHANGED <<orch_vars, stt_vars, wake_vars, device_vars, cosine_vars>>
    \/ build /\ UNCHANGED <<orch_vars, stt_vars, wake_vars, device_vars, cosine_vars>>
    \/ \E t \in Phrases : recognize(t) /\ UNCHANGED <<orch_vars, stt_vars, wake_vars, device_vars, cosine_vars>>

SpecIntent == InitIntent /\ [][NextIntent]_vars

(***************************************************************************)
(* Claims about the classifier, checked under SpecIntent.                  *)
(***************************************************************************)
\* recognize() got as far as find_closest and returned from it.
Classified == recognized.kind \in {"Ok", "ScoreTooLow"}

\* The stored examples in scan order, each with its similarity to the target.
Scan == scored(intents, 1, target)

\* Order and equality of two defined similarities.
AtMost(a, b) == a.num * b.den <= b.num * a.den
Same(a, b) == a.num * b.den = b.num * a.den

\* Positions of a scan whose similarity is defined, and those among them
\* whose similarity is the maximum.
Defined(scan) == {k \in DOMAIN scan : ~scan[k].score.nan}
Maximal(scan) ==
    LET def == Defined(scan)
    IN  {k \in def : \A j \in def : AtMost(scan[j].score, scan[k].score)}
First(S) == CHOOSE k \in S : \A j \in S : k <= j
Last(S) == CHOOSE k \in S : \A j \in S : j <= k

\* The winning score is a number and at least 0.5.
AtOrAboveFloor(score) == ~score.nan /\ score.num * FloorDen >= FloorNum * score.den

\* C7: recognize(text) returns Ok(intent) only if the winning similarity is
\* a value >= 0.5, and ScoreTooLow for every other winning score, an
\* undefined one included.
C7_OkOnlyAtOrAboveFloor ==
    Classified => (recognized.kind = "Ok" <=> AtOrAboveFloor(closest.score))

\* C8: when every stored example's similarity to the query is defined,
\* find_closest returns the intent that owns an example whose similarity is
\* the maximum over all examples of all intents, whatever the order of
\* registration.
C8_ReturnsMaximalWhenAllDefined ==
    Classified =>
        LET scan == Scan
        IN  Defined(scan) = DOMAIN scan =>
                /\ ~closest.score.nan
                /\ \A k \in DOMAIN scan : AtMost(scan[k].score, closest.score)
                /\ \E k \in DOMAIN scan : /\ scan[k].intent = closest.intent
                                          /\ Same(scan[k].score, closest.score)

\* Two intents, all similarities defined, the first-registered intent owns
\* the maximum, the second a strictly smaller score, and the first is
\* returned.
C8_Witness ==
    /\ Classified
    /\ Len(intents) = 2
    /\ closest.intent = 1
    /\ LET scan == Scan
       IN  /\ Defined(scan) = DOMAIN scan
           /\ \E k \in DOMAIN scan : /\ scan[k].intent = 2
                                     /\ ~AtMost(closest.score, scan[k].score)

\* C9 as claimed: when two or more stored examples have exactly the same
\* maximal similarity, find_closest returns the intent owning the
\* earliest-encountered of them in scan order.
C9_TieGoesToEarliest ==
    Classified =>
        LET scan == Scan
            maximal == Maximal(scan)
        IN  Cardinality(maximal) >= 2 =>
                closest.intent = scan[First(maximal)].intent

\* C9, amended: when two or more stored examples have exactly the same
\* maximal similarity, find_closest returns the intent owning the
\* latest-encountered of them in scan order, provided no example with an
\* undefined similarity comes after it in the scan.
C9_TieGoesToLatest ==
    Classified =>
        LET scan == Scan
            maximal == Maximal(scan)
        IN  (/\ Cardinality(maximal) >= 2
             /\ \A k \in DOMAIN scan : k > Last(maximal) => ~scan[k].score.nan) =>
                /\ closest.intent = scan[Last(maximal)].intent
                /\ Same(closest.score, scan[Last(maximal)].score)

\* A tie between examples of two intents: the later intent is returned.
C9_Witness ==
    /\ Classified
    /\ LET scan == Scan
           maximal == Maximal(scan)
       IN  /\ Cardinality(maximal) >= 2
           /\ scan[First(maximal)].intent # scan[Last(maximal)].intent
           /\ \A k \in DOMAIN scan : k > Last(maximal) => ~scan[k].score.nan
           /\ closest.intent = scan[Last(maximal)].intent

\* C10: an undefined similarity is ordered lowest: find_closest never
\* selects an example with undefined similarity when some other stored
\* example has a defined similarity, whatever its position in the scan.
C10_UndefinedNeverSelected ==
    (Classified /\ Defined(Scan) # {}) => ~closest.score.nan

\* C11 (as stated): build returns an error if and only if the list of
\* registered intents is empty, whatever the embedding model does.
C11_ErrorIffEmpty ==
    built # "no" => (built # "ok" <=> config_intents = <<>>)

\* C11 (amended): build returns NoIntentsProvided if and only if the list
\* of registered intents is empty, whatever the embedding model does; with
\* a non-empty list it returns either the classifier, holding one entry per
\* registered intent, or the embedding model's error.
C11_NoIntentsProvidedIffEmpty ==
    built # "no" =>
        /\ built \in {"ok", "NoIntentsProvided", "TextEmbeddingError"}
        /\ built = "NoIntentsProvided" <=> config_intents = <<>>
        /\ built = "ok" => Len(intents) = Len(config_intents)

C11_Witness ==
    built = "NoIntentsProvided" /\ config_intents = <<>>

\* C12: build fails whenever some registered intent has an empty example
\* list, so every built classifier stores at least one example vector per
\* intent and the scan of find_closest is never empty.
C12_EveryBuiltIntentHasAnExample ==
    /\ built = "ok" => \A i \in 1..Len(intents) : Len(intents[i].examples) >= 1
    /\ recognized.kind # "panic"

(***************************************************************************)
(* The wakeword spotter: WakewordConfig (profiles, start) and the capture  *)
(* callback run_detection, with the capture device as its environment.     *)
(***************************************************************************)
\* wakeword.rs:110-116  the WakewordConfig as WakewordConfig::build returns
\* it; wakeword.rs:226  the frame size the Rustpotter instance reports.
InitWake ==
    /\ wakeword_added = FALSE
    /\ profiles = {}
    /\ add_failed = FALSE
    /\ start_ret = "none"
    /\ input_stream = "none"
    /\ samples_per_frame \in 1..MaxFrame
    /\ buffer = <<>>
    /\ delivered = <<>>
    /\ processed = <<>>
    /\ tx_sent = <<>>
    /\ listener_rx = "none"
    /\ send_failed = FALSE
    /\ idle_orch
    /\ idle_stt
    /\ idle_intents
    /\ idle_device
    /\ idle_cosine

\* wakeword.rs:131 placed before the `?` of wakeword.rs:128-130: the flag
\* is set whether or not the profile was loaded.
add_wakeword_from_file_flag_first(name, ok) ==
    /\ start_ret = "none"
    /\ profiles' = IF ok THEN profiles \cup {name} ELSE profiles
    /\ wakeword_added' = TRUE
    /\ add_failed' = (add_failed \/ ~ok)
    /\ UNCHANGED <<start_ret, input_stream, samples_per_frame, buffer, delivered,
                   processed, tx_sent, listener_rx, send_failed>>

\* wakeword.rs:123-133  WakewordConfig::add_wakeword_from_file(name, path);
\* ok is whether Rustpotter could load the profile file.
add_wakeword_from_file(name, ok) ==
    /\ start_ret = "none"
    /\ IF ok
          THEN /\ profiles' = profiles \cup {name}
               /\ wakeword_added' = TRUE
          ELSE UNCHANGED <<profiles, wakeword_added>>
    /\ add_failed' = (add_failed \/ ~ok)
    /\ UNCHANGED <<start_ret, input_stream, samples_per_frame, buffer, delivered,
                   processed, tx_sent, listener_rx, send_failed>>

\* wakeword.rs:137-172  WakewordConfig::start(self). The channel is made at
\* 142, the stream is opened by init_input_stream (144-167) and started by
\* play (169). When start returns an error its locals are dropped, the
\* stream (declared last) before the receiver; on Ok both move into the
\* WakewordListener (171).
start ==
    /\ start_ret = "none"
    /\ IF ~wakeword_added
          THEN /\ start_ret' = "NoWakewordsAdded"
               /\ UNCHANGED <<input_stream, listener_rx>>
          ELSE \E outcome \in {"InitInputStream", "PlayStream", "Ok"} :
                  /\ start_ret' = outcome
                  /\ input_stream' = CASE outcome = "InitInputStream" -> "none"
                                       [] outcome = "PlayStream" -> "dropped"
                                       [] OTHER -> "playing"
                  /\ listener_rx' = IF outcome = "Ok" THEN "alive" ELSE "dropped"
    /\ UNCHANGED <<wakeword_added, profiles, add_failed, samples_per_frame, buffer,
                   delivered, processed, tx_sent, send_failed>>

\* wakeword.rs:177-181  the WakewordListener goes out of scope: its fields
\* are dropped in the order of their declaration, rx (178) first. The
\* stream of the second field is still playing.
drop_rx ==
    /\ listener_rx = "alive"
    /\ input_stream = "playing"
    /\ listener_rx' = "dropped"
    /\ UNCHANGED <<wakeword_added, profiles, add_failed, start_ret, input_stream,
                   samples_per_frame, buffer, delivered, processed, tx_sent,
                   send_failed>>

\* wakeword.rs:177-181  then stream (180) is dropped, which ends the
\* callbacks.
drop_stream ==
    /\ listener_rx = "dropped"
    /\ input_stream = "playing"
    /\ input_stream' = "dropped"
    /\ UNCHANGED <<wakeword_added, profiles, add_failed, start_ret, listener_rx,
                   samples_per_frame, buffer, delivered, processed, tx_sent,
                   send_failed>>

\* wakeword.rs:249-252  buffer.drain(0..n).as_slice().into(): the first n
\* samples leave the buffer as one frame, the others move to the front.
drain(buf, n) ==
    [frame |-> SubSeq(buf, 1, n), rest |-> SubSeq(buf, n + 1, Len(buf))]

\* wakeword.rs:247-258  the while loop: the frames it hands to
\* process_samples, in order, and the buffer it leaves.
RECURSIVE detection_loop(_, _)
detection_loop(buf, n) ==
    IF Len(buf) >= n
       THEN LET d == drain(buf, n)
                later == detection_loop(d.rest, n)
            IN  [frames |-> <<d.frame>> \o later.frames, rest |-> later.rest]
       ELSE [frames |-> <<>>, rest |-> buf]

\* wakeword.rs:247-258  the buffer after the first k turns of the loop.
RECURSIVE drained(_, _, _)
drained(buf, n, k) ==
    IF k = 0 THEN buf ELSE drained(drain(buf, n).rest, n, k - 1)

\* wakeword.rs:239-259  run_detection, the data callback of the stream
\* (wakeword.rs:227-235). For each frame process_samples reports a loaded
\* wakeword or nothing; every reported name is sent. A send on a channel
\* whose receiver was dropped returns Err, and the unwrap of 256 panics:
\* the loop ends at that frame and the callback does not run again.
run_detection(data) ==
    /\ input_stream = "playing"
    /\ ~send_failed
    /\ Len(delivered) + Len(data) <= MaxSamples
    /\ LET looped == detection_loop(buffer \o data, samples_per_frame)
           Detected(name) == name # NoDetection
       IN  \E detection \in [1..Len(looped.frames) -> profiles \cup {NoDetection}] :
              LET sending == {k \in 1..Len(looped.frames) : Detected(detection[k])}
              IN  IF listener_rx = "alive" \/ sending = {}
                     THEN /\ buffer' = looped.rest
                          /\ processed' = processed \o looped.frames
                          /\ tx_sent' = tx_sent \o SelectSeq(detection, Detected)
                          /\ UNCHANGED send_failed
                     ELSE LET k == CHOOSE i \in sending : \A j \in sending : i <= j
                          IN  /\ buffer' = drained(buffer \o data, samples_per_frame, k)
                              /\ processed' = processed \o SubSeq(looped.frames, 1, k)
                              /\ send_failed' = TRUE
                              /\ UNCHANGED tx_sent
    /\ delivered' = delivered \o data
    /\ UNCHANGED <<wakeword_added, profiles, add_failed, start_ret, input_stream,
                   samples_per_frame, listener_rx>>

NextWake ==
    \/ \E name \in Wakewords, ok \in BOOLEAN :
          add_wakeword_from_file(name, ok)
          /\ UNCHANGED <<orch_vars, stt_vars, intent_vars, device_vars, cosine_vars>>
    \/ start /\ UNCHANGED <<orch_vars, stt_vars, intent_vars, device_vars, cosine_vars>>
    \/ \E data \in SeqsUpTo(Samples, MaxChunk) :
          run_detection(data)
          /\ UNCHANGED <<orch_vars, stt_vars, intent_vars, device_vars, cosine_vars>>
    \/ drop_rx /\ UNCHANGED <<orch_vars, stt_vars, intent_vars, device_vars, cosine_vars>>
    \/ drop_stream /\ UNCHANGED <<orch_vars, stt_vars, intent_vars, device_vars, cosine_vars>>

SpecWake == InitWake /\ [][NextWake]_vars

(***************************************************************************)
(* Claims about the wakeword spotter, checked under SpecWake.              *)
(***************************************************************************)
\* C13: with frame size F and N samples delivered in all, process_samples
\* has been called exactly N div F times and the buffer holds N mod F
\* samples; the k-th frame is the samples [k*F, (k+1)*F) of the delivered
\* stream in order, and the buffer is the rest of the stream, so no sample
\* is lost, duplicated or reordered whatever the chunking.
C13_FramesPartitionTheStream ==
    LET F == samples_per_frame
        N == Len(delivered)
    IN  /\ Len(processed) = N \div F
        /\ Len(buffer) = N % F
        /\ \A k \in 1..Len(processed) :
              processed[k] = SubSeq(delivered, (k - 1) * F + 1, k * F)
        /\ buffer = SubSeq(delivered, (N \div F) * F + 1, N)

\* C17: start returns NoWakewordsAdded, and opens no capture stream, if and
\* only if no add_wakeword_from_file call on the configuration succeeded;
\* a call that returned an error does not count.
C17_NoWakewordsAddedIffNoneLoaded ==
    start_ret # "none" =>
        /\ start_ret = "NoWakewordsAdded" <=> profiles = {}
        /\ start_ret = "NoWakewordsAdded" => input_stream = "none"

C17_Witness ==
    start_ret = "NoWakewordsAdded" /\ add_failed

(***************************************************************************)
(* Claims about what one listen() call returns, checked under Spec.        *)
(***************************************************************************)
\* C14: when the synthesizer reports not speaking for a received wakeword
\* that was not added with the listen flag, listen() returns Ok with that
\* wakeword and no intent, having opened no recognition session and run no
\* classification.
C14_UnflaggedWakewordReturnsNoIntent ==
    [][(/\ pc = "is_speaking" /\ pc' # "is_speaking"
        /\ tts_status' = "OkFalse"
        /\ wakeword.name \notin wakewords_listen)
       => /\ pc' = "idle"
          /\ ret' = AssistantQuery(wakeword, "None")
          /\ wakeword.id \notin sessions' \cup classified'
          /\ stages_in_call' = NoStages]_vars

C14_Witness ==
    /\ pc = "idle" /\ ret.kind = "Ok" /\ ret.intent = "None"
    /\ ret.wakeword.name \in Wakewords \ wakewords_listen
    /\ tts_status = "OkFalse"
    /\ stages_in_call = NoStages

\* C15: every ProcessError carries the wakeword most recently received from
\* the event channel by the listen() call that returns it (events leave the
\* channel in the order of their sequence numbers, so that event is the one
\* numbered detections - Len(rx)), also when earlier events were discarded.
C15_ErrorNamesLatestReceived ==
    ret.kind = "ProcessError" =>
        /\ ret.wakeword.name \in Wakewords
        /\ ret.wakeword.id = detections - Len(rx)
        /\ ret.wakeword.id \notin discarded

C15_Witness ==
    /\ ret.kind = "ProcessError"
    /\ discarded_in_call
    /\ ret.wakeword.id >= 2

\* C16: listen() returns WakewordRecvError exactly when its receive fails,
\* the channel being empty and disconnected; the call that returns it ran
\* no recognition and returns nothing else, on entry and on re-entry after
\* a discard alike.
C16_RecvErrorIffDisconnectedAndEmpty ==
    [][/\ (pc = "recv" /\ pc' # "recv")
          => ((rx = <<>> /\ ~tx_alive) <=> ret' = WakewordRecvError)
       /\ (ret' = WakewordRecvError /\ ret # WakewordRecvError)
          => /\ pc = "recv" /\ pc' = "idle"
             /\ rx = <<>> /\ ~tx_alive
             /\ stages_in_call' = NoStages
             /\ sessions' = sessions /\ classified' = classified]_vars

C16_Witness ==
    /\ pc = "idle" /\ ret = WakewordRecvError
    /\ discarded_in_call
    /\ stages_in_call = NoStages

\* C19: one listen() call opens at most one recognition session and runs at
\* most one classification, and classifies only after a session, however
\* many wakewords it discarded; once it has returned an error it has opened
\* no further session.
C19_AtMostOneSessionPerCall ==
    /\ stages_in_call.sessions <= 1
    /\ stages_in_call.classifications <= stages_in_call.sessions
    /\ pc \in {"recv", "is_speaking", "finish_speaking", "recognize"}
          => stages_in_call = NoStages
    /\ pc \in {"recognizing", "classify"}
          => stages_in_call = [sessions |-> 1, classifications |-> 0]

C19_Witness ==
    /\ pc = "idle" /\ ret.kind = "ProcessError"
    /\ ret.err = "SpeechRecognitionTimeout"
    /\ discarded_in_call /\ Cardinality(discarded) >= 2
    /\ stages_in_call = [sessions |-> 1, classifications |-> 0]

(***************************************************************************)
(* Format negotiation: WakewordConfig::build against what the default      *)
(* capture device reports.                                                 *)
(***************************************************************************)
\* cpal::SampleFormat values a device can report; U8 stands for the formats
\* the spotter does not take.
SampleFormats == {"I16", "I32", "F32", "U8"}
ChannelCounts == {1, 2}
\* Sample rates of a default configuration, and (min, max) rate ranges of a
\* supported one: around, below and above the preferred rate.
DefaultRates == {16000, 48000}
RateRanges == {<<8000, 48000>>, <<8000, 8000>>, <<44100, 48000>>}

\* cpal::SupportedStreamConfig, as default_input_config() returns it.
DefaultConfigs ==
    [format : SampleFormats, channels : ChannelCounts, rate : DefaultRates]
\* cpal::SupportedStreamConfigRange, as supported_input_configs() yields them.
ConfigRanges ==
    {[format |-> f, channels |-> c, min |-> r[1], max |-> r[2]] :
        f \in SampleFormats, c \in ChannelCounts, r \in RateRanges}

\* wakeword.rs:54-66  what the host can report: no device, a device without
\* a default configuration, a device whose configurations cannot be listed,
\* and a device with a default and a list of supported ranges.
Devices ==
    {NoDevice, [status |-> "no_default", default |-> NoStreamConfig, supported |-> <<>>]}
    \cup {[status |-> "no_list", default |-> d, supported |-> <<>>] : d \in DefaultConfigs}
    \cup {[status |-> "ok", default |-> d, supported |-> l] :
             d \in DefaultConfigs, l \in SeqsUpTo(ConfigRanges, MaxConfigs)}

\* wakeword.rs:195-200  is_compatible_format
is_compatible_format(format) == format \in {"I16", "I32", "F32"}

\* cpal: SupportedStreamConfigRange::with_sample_rate / with_max_sample_rate
with_sample_rate(sc, rate) ==
    [format |-> sc.format, channels |-> sc.channels, rate |-> rate]
with_max_sample_rate(sc) == with_sample_rate(sc, sc.max)

\* wakeword.rs:202-213  try_get_config_with_sample_rate
try_get_config_with_sample_rate(sc, preferred_sample_rate) ==
    IF sc.min <= preferred_sample_rate /\ preferred_sample_rate <= sc.max
       THEN with_sample_rate(sc, preferred_sample_rate)
       ELSE with_max_sample_rate(sc)

\* wakeword.rs:67  Iterator::find: the positions of the ranges the closure
\* accepts; find returns the first of them.
compatible_positions(supported) ==
    {i \in 1..Len(supported) : is_compatible_format(supported[i].format)}
first_position(S) == CHOOSE i \in S : \A j \in S : i <= j

\* wakeword.rs:54-70  the device, its default configuration and the choice
\* of input_config, as a result: the error, or Ok with the configuration.
select_input_config(dev) ==
    IF dev.status = "no_device"
       THEN [kind |-> "NoInputDevice", config |-> NoStreamConfig]
    ELSE IF dev.status = "no_default"
       THEN [kind |-> "NoDefaultInputConfig", config |-> NoStreamConfig]
    ELSE IF is_compatible_format(dev.default.format)
       THEN [kind |-> "Ok", config |-> dev.default]
    ELSE IF dev.status = "no_list"
       THEN [kind |-> "ListInputConfigs", config |-> NoStreamConfig]
    ELSE IF compatible_positions(dev.supported) = {}
       THEN [kind |-> "GetSupportedInputConfig", config |-> NoStreamConfig]
    ELSE [kind |-> "Ok",
          config |-> try_get_config_with_sample_rate(
                        dev.supported[first_position(compatible_positions(dev.supported))],
                        PreferredSampleRate)]

InitDevice ==
    /\ device \in Devices
    /\ input_config = NoConfig
    /\ stt_config = NoConfig
    /\ idle_orch
    /\ idle_stt
    /\ idle_intents
    /\ idle_wake
    /\ idle_cosine

\* wakeword.rs:53-117  WakewordConfig::build. The sample sizes of the three
\* compatible formats (16 and 32 bits) are sizes Rustpotter knows, so
\* WrongSampleFormatSize (78-88) is not returned; Rustpotter::new (107-108)
\* can refuse the configuration.
WakewordConfig_build ==
    /\ input_config = NoConfig
    /\ LET selected == select_input_config(device)
       IN  IF selected.kind # "Ok"
              THEN input_config' = selected
              ELSE \E rustpotter_ok \in BOOLEAN :
                      input_config' = IF rustpotter_ok
                                         THEN selected
                                         ELSE [kind |-> "CreateRustpotter",
                                               config |-> NoStreamConfig]
    /\ UNCHANGED <<device, stt_config>>

\* stt.rs:43-48  the closure of find: a supported range the recognizer's
\* capture can use.
stt_compatible_positions(supported) ==
    {i \in 1..Len(supported) :
        /\ supported[i].format = "I16"
        /\ supported[i].channels = 1
        /\ supported[i].min <= CaptureSampleRate
        /\ CaptureSampleRate <= supported[i].max}

\* stt.rs:30-64  STTConfig::build as a result: the error, or Ok with the
\* input_config whose channel count and sample rate make the StreamConfig
\* (53-57); the stream is built for i16 samples (158).
stt_build_result(dev) ==
    IF dev.status = "no_device"
       THEN [kind |-> "FailedGetDefaultInputDevice", config |-> NoStreamConfig]
    ELSE IF dev.status = "no_default"
       THEN [kind |-> "FailedGetDefaultInputConfig", config |-> NoStreamConfig]
    ELSE IF dev.default.format = "I16" /\ dev.default.channels = 1
       THEN [kind |-> "Ok", config |-> dev.default]
    ELSE IF dev.status = "no_list"
       THEN [kind |-> "FailedListInputConfigs", config |-> NoStreamConfig]
    ELSE IF stt_compatible_positions(dev.supported) = {}
       THEN [kind |-> "FailedGetSupportedInputConfig", config |-> NoStreamConfig]
    ELSE [kind |-> "Ok",
          config |-> with_sample_rate(
                        dev.supported[first_position(stt_compatible_positions(dev.supported))],
                        CaptureSampleRate)]

\* stt.rs:29-65  STTConfig::build
STTConfig_build ==
    /\ stt_config = NoConfig
    /\ stt_config' = stt_build_result(device)
    /\ UNCHANGED <<device, input_config>>

NextDevice ==
    \/ WakewordConfig_build
       /\ UNCHANGED <<orch_vars, stt_vars, intent_vars, wake_vars, cosine_vars>>
    \/ STTConfig_build
       /\ UNCHANGED <<orch_vars, stt_vars, intent_vars, wake_vars, cosine_vars>>

SpecDevice == InitDevice /\ [][NextDevice]_vars

(***************************************************************************)
(* Claims about format negotiation, checked under SpecDevice.              *)
(***************************************************************************)
\* A configuration the claim calls acceptable: single channel and an
\* accepted sample format.
Acceptable(c) == c.channels = 1 /\ c.format \in {"I16", "I32", "F32"}
\* Positions of the supported ranges that are acceptable and whose rate
\* range includes 16000 Hz.
Candidates ==
    {i \in 1..Len(device.supported) :
        /\ Acceptable(device.supported[i])
        /\ device.supported[i].min <= 16000 /\ 16000 <= device.supported[i].max}

\* C20: build succeeds only with a single-channel configuration
\* of an accepted sample format; when the default is not acceptable the
\* configuration comes from a supported range that is acceptable and
\* includes 16000 Hz, at rate 16000; with no such range build fails.
C20_SingleChannelAt16000 ==
    input_config.kind = "Ok" =>
        /\ Acceptable(input_config.config)
        /\ ~Acceptable(device.default) =>
              /\ Candidates # {}
              /\ input_config.config.rate = 16000

(***************************************************************************)
(* compute_cosine_distance as a function of its two arguments.             *)
(***************************************************************************)
\* intents.rs:110  the slices a and b: four-component vectors with integer
\* components and an integer magnitude, the all-zero vector among them. On
\* these the f32 sums, products and square roots are exact.
Vectors ==
    {v \in [1..4 -> -MaxComponent..MaxComponent] :
        \E r \in 0..(2 * MaxComponent) : r * r = sum_products(v, v)}

InitCosine ==
    /\ cos_a \in Vectors
    /\ cos_b \in Vectors
    /\ cos_result = NoCosine
    /\ idle_orch
    /\ idle_stt
    /\ idle_intents
    /\ idle_wake
    /\ idle_device

\* intents.rs:110-115  one call compute_cosine_distance(a, b)
cosine_call ==
    /\ cos_result = NoCosine
    /\ cos_result' = compute_cosine_distance(cos_a, cos_b)
    /\ UNCHANGED <<cos_a, cos_b>>

NextCosine ==
    \/ cosine_call
       /\ UNCHANGED <<orch_vars, stt_vars, intent_vars, wake_vars, device_vars>>

SpecCosine == InitCosine /\ [][NextCosine]_vars

(***************************************************************************)
(* Claims about compute_cosine_distance, checked under SpecCosine.         *)
(***************************************************************************)
\* The value returned is a number between -1 and 1.
InUnitRange(score) ==
    ~score.nan /\ -score.den <= score.num /\ score.num <= score.den
AllZero(v) == \A i \in 1..Len(v) : v[i] = 0

\* C18 (as stated): for every vector v, the all-zero vector included,
\* compute_cosine_distance(v, v) is 1, and for every two vectors the
\* result lies in [-1, 1].
C18_SelfSimilarityIsOne ==
    cos_result # NoCosine =>
        /\ InUnitRange(cos_result)
        /\ cos_a = cos_b => cos_result.num = cos_result.den

\* C18 (amended): for every vector v that is not all-zero,
\* compute_cosine_distance(v, v) is 1, and for every two vectors neither of
\* which is all-zero the result lies in [-1, 1]; when an argument is
\* all-zero the result is NaN. Stated for the vectors of Vectors, whose
\* magnitudes are integers: there the f32 result is exact, elsewhere it is
\* the same value up to rounding.
C18_SelfSimilarityIsOneUnlessZero ==
    cos_result # NoCosine =>
        IF AllZero(cos_a) \/ AllZero(cos_b)
           THEN cos_result.nan
           ELSE /\ InUnitRange(cos_result)
                /\ cos_a = cos_b => cos_result.num = cos_result.den

C18_Witness ==
    /\ cos_a = <<2, -2, 1, 0>> /\ cos_b = cos_a
    /\ cos_result = [nan |-> FALSE, num |-> 9, den |-> 9]

(***************************************************************************)
(* Claims about the stages of one listen() call, checked under Spec.       *)
(***************************************************************************)
\* C21: in every listen() call the stages run in the order receipt,
\* recognition, classification: classification runs only after a session of
\* the same call returned Final(text), and on exactly that text; a Failed or
\* Cancelled outcome or a recognition error never leads to classification;
\* and intent Some(id) is returned only when the classification of that
\* text returned id.
C21_StagesInOrder ==
    /\ stage_log.session # "none" => wakeword # NoWakeword
    /\ pc = "classify" => stage_log.session \in Texts /\ text = stage_log.session
    /\ stage_log.classify_text # "none" =>
          /\ stage_log.session \in Texts
          /\ stage_log.classify_text = stage_log.session
    /\ stage_log.session \notin Texts \cup {"none"} =>
          /\ stage_log.classify_text = "none"
          /\ stages_in_call.classifications = 0
          /\ wakeword.id \notin classified
          /\ ret.kind = "ProcessError"
    /\ (ret.kind = "Ok" /\ ret.intent # "None") =>
          /\ stage_log.classify_ret = ret.intent
          /\ stage_log.classify_ret \in IntentIds
          /\ stage_log.classify_text = stage_log.session

C21_Witness ==
    /\ pc = "idle" /\ ret.kind = "Ok" /\ ret.intent = "A"
    /\ stage_log = [session |-> "goodbye", classify_text |-> "goodbye", classify_ret |-> "A"]
    /\ discarded_in_call

\* C22: every failure of is_speaking() met during a listen() call is
\* returned to the caller as a ProcessError naming the wakeword just
\* received, at the check that follows the receipt and during the wait in
\* finish_speaking alike.
C22_SynthesizerFailureIsReported ==
    [][(/\ pc \in {"is_speaking", "finish_speaking"} /\ pc' # pc
        /\ tts_status' = "Err")
       => /\ pc' = "idle"
          /\ ret' = ProcessError(wakeword, "SpeechRecognitionError")]_vars

\* C23: wakeword events are delivered in detection order and exactly once.
\* Detections are numbered in the order the scoring calls produce them; a
\* detection is appended to the channel whatever the orchestrator is doing,
\* the channel always holds exactly the detections not yet received, in
\* order, and each receive returns the detection that follows the last one
\* received, so the names received are a prefix of the names detected.
C23_EventsInDetectionOrder ==
    /\ [](\A i \in 1..Len(rx) : rx[i].id = detections - Len(rx) + i)
    /\ [][/\ detections' # detections
             => /\ detections' = detections + 1
                /\ Len(rx') = Len(rx) + 1
                /\ SubSeq(rx', 1, Len(rx)) = rx
                /\ rx'[Len(rx')].id = detections'
                /\ UNCHANGED pc
          /\ rx' # rx /\ detections' = detections
             => /\ rx' = Tail(rx)
                /\ wakeword' = Head(rx)
                /\ wakeword'.id = detections - Len(rx) + 1]_vars

C23_Witness ==
    /\ pc = "classify"
    /\ wakeword.id = 2
    /\ Len(rx) = 1 /\ rx[1].id = 3
    /\ discarded = {1}

(***************************************************************************)
(* Termination of a recognition session, checked under SpecSTTLive.        *)
(***************************************************************************)
\* C24 (as stated): provided chunks keep being delivered and time advances,
\* every recognize() call eventually returns one of Final, Failed or
\* Cancelled.
C24_EventuallyReturnsAnOutcome ==
    <>(stt_pc = "returned" /\ stt_ret \in Outcomes)

\* The errors recognize() can return (stt.rs:87-94).
RecognitionErrors ==
    {RecognitionError(e) :
        e \in {"FailedCreateRecognizer", "FailedPlayStream", "FailedReceiveResult"}}

\* C24 (amended): provided chunks keep being delivered and time advances,
\* every recognize() call eventually ends, it cannot block forever: it
\* returns one of Final, Failed or Cancelled, or one of the errors
\* FailedCreateRecognizer, FailedPlayStream and FailedReceiveResult, or it
\* panics because the capture stream could not be built.
C24_EventuallyEnds ==
    /\ <>(stt_pc \in {"returned", "panicked"})
    /\ [](stt_pc = "returned" => stt_ret \in Outcomes \cup RecognitionErrors)
    /\ [](stt_pc = "panicked" => stream = "none" /\ stt_ret = NoResult)

\* A session that lasted until the timeout: Cancelled is the only message
\* sent, and recognize() returned it.
C24_Witness ==
    /\ stt_pc = "returned" /\ stt_ret = Cancelled
    /\ sends = <<Cancelled>>
    /\ fed_after_send = 0
    /\ stream = "dropped"

\* C25: whenever STTConfig::build succeeds, the capture configuration that
\* recognize() opens the stream with is single-channel 16-bit integer at the
\* decoder's rate of 16000 Hz.
C25_CaptureAtDecoderRate ==
    stt_config.kind = "Ok" =>
        /\ stt_config.config.format = "I16"
        /\ stt_config.config.channels = 1
        /\ stt_config.config.rate = DecoderSampleRate

\* C26: the send of the capture callback never fails, so its unwrap never
\* panics, under any interleaving of the callback with the thread that
\* owns the WakewordListener, the drop of the listener included.
C26_SendNeverFails == ~send_failed

====
